---- MODULE Spec2Model ----
(***************************************************************************)
(* HemoLink ML service (backend/ml-service): eligibility scoring, Gemini   *)
(* client, NLTK keyword matcher and the FastAPI handlers, as a state       *)
(* machine.  A string is a sequence of pieces: a text that is searched or  *)
(* split is a sequence of one-character strings; a text that is only       *)
(* stripped and compared holds each run of non-whitespace text as one      *)
(* piece.  Numbers that are floats in the code are integers in tenths.     *)
(***************************************************************************)
EXTENDS Integers, Sequences, FiniteSets, TLC

----------------------------------------------------------------------------
(* Python values.                                                          *)

None == [t |-> "none"]
StrV(s) == [t |-> "str", v |-> s]
NumV(tenths) == [t |-> "num", v |-> tenths]
BoolV(b) == [t |-> "bool", v |-> b]
ListV(items) == [t |-> "list", v |-> items]
NaNV == [t |-> "nan"]
InfV == [t |-> "inf"]
\* A JSON object used as a value: a dict with the given keys.
\* A Python list of str from a sequence of strings.
PyStrList(seq) == ListV([i \in DOMAIN seq |-> StrV(seq[i])])

\* A call's outcome: a returned value or a raised exception.
Ret(v) == [t |-> "ret", v |-> v]
Raise(e) == [t |-> "raise", exc |-> e]

----------------------------------------------------------------------------
(* Strings: str.strip, str.lower, re.sub of whitespace runs, str.split, in. *)

Whitespace == {" ", "\t", "\n"}
UpperCase == <<"A","B","C","D","E","F","G","H","I","J","K","L","M",
               "N","O","P","Q","R","S","T","U","V","W","X","Y","Z">>
LowerCase == <<"a","b","c","d","e","f","g","h","i","j","k","l","m",
               "n","o","p","q","r","s","t","u","v","w","x","y","z">>
Digits == <<"0","1","2","3","4","5","6","7","8","9">>
\* string.punctuation without the double quote, the backslash and the backquote.
Punctuation == {"!", "#", "$", "%", "&", "'", "(", ")", "*", "+", ",",
                "-", ".", "/", ":", ";", "<", "=", ">", "?", "@", "[",
                "]", "^", "_", "{", "|", "}", "~"}

Range(s) == {s[i] : i \in DOMAIN s}

LowerChar(c) ==
    IF \E i \in DOMAIN UpperCase : UpperCase[i] = c
    THEN LowerCase[CHOOSE i \in DOMAIN UpperCase : UpperCase[i] = c]
    ELSE c

Lower(s) == [i \in DOMAIN s |-> LowerChar(s[i])]

RECURSIVE LStrip(_)
LStrip(s) ==
    IF s # <<>> /\ Head(s) \in Whitespace THEN LStrip(Tail(s)) ELSE s

RECURSIVE RStrip(_)
RStrip(s) ==
    IF s # <<>> /\ s[Len(s)] \in Whitespace
    THEN RStrip(SubSeq(s, 1, Len(s) - 1))
    ELSE s

\* A strip that leaves the text as it is.
Strip_left_out(s) == s

\* str.strip()
Strip(s) == RStrip(LStrip(s))

\* re.sub of \s+ by one space: every maximal run of whitespace becomes one space.
RECURSIVE CollapseWhitespace(_)
CollapseWhitespace(s) ==
    IF s = <<>> THEN <<>>
    ELSE IF Head(s) \in Whitespace
         THEN <<" ">> \o CollapseWhitespace(LStrip(s))
         ELSE <<Head(s)>> \o CollapseWhitespace(Tail(s))

\* t in s, for strings.
IsSubstring(t, s) ==
    \E i \in 0..(Len(s) - Len(t)) : SubSeq(s, i + 1, i + Len(t)) = t

\* The leading run of non-whitespace characters of s.
RECURSIVE FirstWord(_)
FirstWord(s) ==
    IF s = <<>> \/ Head(s) \in Whitespace THEN <<>>
    ELSE <<Head(s)>> \o FirstWord(Tail(s))

\* str.split(): the maximal runs of non-whitespace characters, in order.
RECURSIVE Split(_)
Split(s) ==
    LET r == LStrip(s)
    IN  IF r = <<>> THEN <<>>
        ELSE LET w == FirstWord(r)
             IN  <<w>> \o Split(SubSeq(r, Len(w) + 1, Len(r)))

\* join(words) with one space
RECURSIVE JoinSpace(_)
JoinSpace(words) ==
    IF words = <<>> THEN <<>>
    ELSE IF Len(words) = 1 THEN words[1]
    ELSE words[1] \o <<" ">> \o JoinSpace(Tail(words))

\* list(dict.fromkeys(xs)): the first occurrence of each element, in order.
RECURSIVE DictFromKeys(_)
DictFromKeys(xs) ==
    IF xs = <<>> THEN <<>>
    ELSE LET r == DictFromKeys(SubSeq(xs, 1, Len(xs) - 1))
             x == xs[Len(xs)]
         IN  IF x \in Range(r) THEN r ELSE Append(r, x)

----------------------------------------------------------------------------
(* nlp_health.py                                                           *)

Terms_recent_illness ==
    << <<"i","l","l">>,
       <<"i","l","l","n","e","s","s">>,
       <<"s","i","c","k">>,
       <<"s","i","c","k","n","e","s","s">>,
       <<"f","e","v","e","r">>,
       <<"c","o","l","d">>,
       <<"c","o","u","g","h">>,
       <<"i","n","f","e","c","t","i","o","n">>,
       <<"i","n","f","e","c","t">>,
       <<"f","l","u">>,
       <<"u","n","w","e","l","l">>,
       <<"r","e","c","e","n","t","l","y">>,
       <<"v","i","r","u","s">>,
       <<"f","e","v","e","r","i","s","h">>,
       <<"r","u","n","n","i","n","g"," ","n","o","s","e">>,
       <<"s","o","r","e"," ","t","h","r","o","a","t">>,
       <<"c","o","l","d">>,
       <<"w","e","a","k">>,
       <<"u","n","w","e","l","l">> >>
Terms_diabetes ==
    << <<"d","i","a","b","e","t","e","s">>,
       <<"d","i","a","b","e","t","i","c">>,
       <<"s","u","g","a","r">>,
       <<"g","l","u","c","o","s","e">>,
       <<"b","l","o","o","d"," ","s","u","g","a","r">>,
       <<"h","y","p","e","r","g","l","y","c","e","m","i","a">>,
       <<"h","y","p","o","g","l","y","c","e","m","i","a">>,
       <<"i","n","s","u","l","i","n">>,
       <<"p","r","e","d","i","a","b","e","t","i","c">> >>
Terms_anemia ==
    << <<"a","n","e","m","i","a">>,
       <<"a","n","a","e","m","i","a">>,
       <<"h","a","e","m","o","g","l","o","b","i","n">>,
       <<"h","e","m","o","g","l","o","b","i","n">>,
       <<"h","b">>,
       <<"l","o","w"," ","i","r","o","n">>,
       <<"i","r","o","n">>,
       <<"d","e","f","i","c","i","e","n","t">>,
       <<"t","h","a","l","a","s","s","e","m","i","a">> >>
Terms_bp ==
    << <<"b","l","o","o","d"," ","p","r","e","s","s","u","r","e">>,
       <<"h","y","p","e","r","t","e","n","s","i","o","n">>,
       <<"h","y","p","e","r","t","e","n","s","i","v","e">>,
       <<"h","y","p","o","t","e","n","s","i","o","n">>,
       <<"b","p">>,
       <<"h","i","g","h"," ","b","p">>,
       <<"l","o","w"," ","b","p">>,
       <<"p","r","e","s","s","u","r","e">> >>
Terms_medication ==
    << <<"m","e","d","i","c","a","t","i","o","n">>,
       <<"m","e","d","i","c","i","n","e">>,
       <<"m","e","d","i","c","i","n","e","s">>,
       <<"d","r","u","g">>,
       <<"d","r","u","g","s">>,
       <<"a","n","t","i","b","i","o","t","i","c">>,
       <<"a","n","t","i","b","i","o","t","i","c","s">>,
       <<"t","r","e","a","t","m","e","n","t">>,
       <<"p","r","e","s","c","r","i","p","t","i","o","n">>,
       <<"t","a","k","i","n","g">>,
       <<"o","n"," ","d","r","u","g","s">>,
       <<"t","a","b","l","e","t">>,
       <<"i","n","j","e","c","t","i","o","n">> >>
Terms_serious_condition ==
    << <<"c","a","n","c","e","r">>,
       <<"c","h","e","m","o","t","h","e","r","a","p","y">>,
       <<"h","i","v">>,
       <<"a","i","d","s">>,
       <<"h","e","p","a","t","i","t","i","s">>,
       <<"h","e","a","r","t"," ","d","i","s","e","a","s","e">>,
       <<"s","t","r","o","k","e">>,
       <<"m","a","j","o","r"," ","s","u","r","g","e","r","y">>,
       <<"l","e","u","k","e","m","i","a">>,
       <<"l","y","m","p","h","o","m","a">>,
       <<"t","u","m","o","r">>,
       <<"m","a","l","i","g","n","a","n","t">>,
       <<"o","n","c","o","l","o","g","y">> >>


recent_illness == <<"recent_illness">>
diabetes == <<"diabetes">>
anemia == <<"anemia">>
bp == <<"bp">>
medication == <<"medication">>
serious_condition == <<"serious_condition">>

\* The keys of HEALTH_TERMS, in the order of the dict.
HEALTH_FLAGS ==
    <<recent_illness, diabetes, anemia, bp, medication, serious_condition>>

HEALTH_TERMS(flag) ==
    CASE flag = recent_illness -> Terms_recent_illness
      [] flag = diabetes -> Terms_diabetes
      [] flag = anemia -> Terms_anemia
      [] flag = bp -> Terms_bp
      [] flag = medication -> Terms_medication
      [] flag = serious_condition -> Terms_serious_condition

normalize_word(s) == Lower(Strip(CollapseWhitespace(s)))

IsAlnum(w) ==
    /\ w # <<>>
    /\ \A i \in DOMAIN w :
          w[i] \in Range(LowerCase) \cup Range(UpperCase) \cup Range(Digits)

\* for c in string.punctuation: text = text.replace(c, " ")
ReplacePunctuation(s) ==
    [i \in DOMAIN s |-> IF s[i] \in Punctuation THEN " " ELSE s[i]]

\* WordNetLemmatizer.lemmatize on the words the table knows, the word itself
\* otherwise.
Lemmatize(table, w) == IF w \in DOMAIN table THEN table[w] ELSE w

RECURSIVE LemmasOf(_, _)
LemmasOf(table, tokens) ==
    IF tokens = <<>> THEN {}
    ELSE LET w == Lower(Head(tokens))
             rest == LemmasOf(table, Tail(tokens))
         IN  IF ~IsAlnum(w) \/ Len(w) < 2 THEN rest
             ELSE {Lemmatize(table, w), w} \cup rest

\* _ensure_nltk: the resources are looked up (and downloaded quietly) once; the
\* flag is set whether or not they were found.
ensure_nltk(ready) == TRUE

\* _tokenize_and_lemmatize.  nltk is what the NLTK installation gives: its
\* lemma table, or ok = FALSE when its resources are missing (word_tokenize
\* raises LookupError).
tokenize_and_lemmatize(text, nltk) ==
    LET t == normalize_word(text)
    IN  IF t = <<>> THEN Ret({})
        ELSE IF ~nltk.ok THEN Raise("LookupError")
        ELSE Ret(LemmasOf(nltk.lemma, Split(ReplacePunctuation(t))))

\* The 2- and 3-word phrases of words.
PhrasesOf(words) ==
    {JoinSpace(SubSeq(words, p[1], p[1] + p[2] - 1)) :
        p \in {q \in (1..Len(words)) \X {2, 3} : q[1] - 1 + q[2] <= Len(words)}}

\* The match of whole tokens and phrases only.
TermMatches_tokens_only(flag, tokens_set, text) ==
    \E i \in DOMAIN HEALTH_TERMS(flag) :
        normalize_word(HEALTH_TERMS(flag)[i]) \in tokens_set

\* Whether one of the flag's terms is a token, a phrase or a substring of text.
TermMatches(flag, tokens_set, text) ==
    \E i \in DOMAIN HEALTH_TERMS(flag) :
        LET t_norm == normalize_word(HEALTH_TERMS(flag)[i])
        IN  t_norm \in tokens_set \/ IsSubstring(t_norm, text)

RECURSIVE MatchedFlags(_, _, _)
MatchedFlags(flags, tokens_set, text) ==
    IF flags = <<>> THEN <<>>
    ELSE (IF TermMatches(Head(flags), tokens_set, text)
          THEN <<Head(flags)>> ELSE <<>>)
         \o MatchedFlags(Tail(flags), tokens_set, text)

\* _normalize_health_to_flags_nltk: [out, ready, nltk_called].
normalize_health_to_flags_nltk(health_summary, nltk, ready) ==
    LET text == normalize_word(health_summary)
    IN  IF text = <<>>
        THEN [out |-> Ret(ListV(<<>>)), ready |-> ready, nltk_called |-> FALSE]
        ELSE LET toks == tokenize_and_lemmatize(health_summary, nltk)
             IN  IF toks.t = "raise"
                 THEN [out |-> toks, ready |-> ensure_nltk(ready),
                       nltk_called |-> TRUE]
                 ELSE LET tokens_set == toks.v \cup PhrasesOf(Split(text))
                      IN  [out |-> Ret(PyStrList(DictFromKeys(
                                     MatchedFlags(HEALTH_FLAGS, tokens_set, text)))),
                           ready |-> ensure_nltk(ready),
                           nltk_called |-> TRUE]

----------------------------------------------------------------------------
(* Python's truth value, float(), round(), str() and iteration, on the     *)
(* values a JSON reply can hold.                                           *)

Truthy(v) ==
    CASE v.t = "none" -> FALSE
      [] v.t = "bool" -> v.v
      [] v.t = "num" -> v.v # 0
      [] v.t \in {"str", "list", "tuple", "obj"} -> v.v # <<>>
      [] OTHER -> TRUE

\* x or default
Or(x, default) == IF Truthy(x) THEN x ELSE default

DigitValue(c) == (CHOOSE i \in DOMAIN Digits : Digits[i] = c) - 1

RECURSIVE DigitsValue(_)
DigitsValue(s) ==
    IF s = <<>> THEN 0
    ELSE 10 * DigitsValue(SubSeq(s, 1, Len(s) - 1)) + DigitValue(s[Len(s)])

\* float(v), in tenths.  Of the strings, the plain runs of digits are parsed.
Float(v) ==
    CASE v.t = "num" -> Ret(v)
      [] v.t = "bool" -> Ret(NumV(IF v.v THEN 10 ELSE 0))
      [] v.t \in {"nan", "inf"} -> Ret(v)
      [] v.t = "str" ->
            LET s == Strip(v.v)
            IN  IF s # <<>> /\ Range(s) \subseteq Range(Digits)
                THEN Ret(NumV(10 * DigitsValue(s)))
                ELSE Raise("ValueError")
      [] OTHER -> Raise("TypeError")

\* Round half to even (Python's round, numpy's np.round), from tenths to units.
RoundHalfEven(tenths) ==
    LET q == tenths \div 10
        r == tenths % 10
    IN  IF r < 5 THEN q
        ELSE IF r > 5 THEN q + 1
        ELSE IF q % 2 = 0 THEN q ELSE q + 1

\* int(round(f)) of a float f.
IntRound(f) ==
    CASE f.t = "num" -> Ret(RoundHalfEven(f.v))
      [] f.t = "nan" -> Raise("ValueError")
      [] f.t = "inf" -> Raise("OverflowError")

Min(a, b) == IF a <= b THEN a ELSE b
Max(a, b) == IF a >= b THEN a ELSE b

RECURSIVE IntToStr(_)
IntToStr(n) ==
    IF n < 0 THEN <<"-">> \o IntToStr(0 - n)
    ELSE IF n < 10 THEN <<Digits[n + 1]>>
    ELSE IntToStr(n \div 10) \o <<Digits[(n % 10) + 1]>>

\* str(v).  A number with a fraction prints it; the containers print as their
\* brackets.
Str(v) ==
    CASE v.t = "str" -> v.v
      [] v.t = "num" ->
            IF v.v % 10 = 0 THEN IntToStr(v.v \div 10)
            ELSE (IF v.v < 0 THEN <<"-">> ELSE <<>>)
                 \o IntToStr((IF v.v < 0 THEN 0 - v.v ELSE v.v) \div 10)
                 \o <<".">>
                 \o IntToStr((IF v.v < 0 THEN 0 - v.v ELSE v.v) % 10)
      [] v.t = "bool" -> IF v.v THEN <<"True">> ELSE <<"False">>
      [] v.t = "none" -> <<"None">>
      [] v.t = "nan" -> <<"nan">>
      [] v.t = "inf" -> <<"inf">>
      [] v.t = "list" -> <<"[]">>
      [] v.t = "obj" -> <<"{}">>

\* for r in v: the items of a list, the characters of a str, the keys of a
\* dict; anything else is not iterable.
Iterate(v) ==
    CASE v.t = "list" -> Ret(v.v)
      [] v.t = "str" -> Ret([i \in DOMAIN v.v |-> StrV(<<v.v[i]>>)])
      [] v.t = "obj" -> Ret([i \in DOMAIN v.v |-> StrV(v.v[i])])
      [] OTHER -> Raise("TypeError")

Hashable(v) == v.t \notin {"list", "obj"}

RECURSIVE SelectSeq2(_, _)
SelectSeq2(s, keep) ==
    IF s = <<>> THEN <<>>
    ELSE (IF Head(s) \in keep THEN <<Head(s)>> ELSE <<>>)
         \o SelectSeq2(Tail(s), keep)

\* The whole list, whatever n.
Take_all(xs, n) == xs

\* xs[:n]
Take(xs, n) == SubSeq(xs, 1, Min(n, Len(xs)))

----------------------------------------------------------------------------
(* gemini_client.py                                                        *)

\* The text of a Gemini reply is a sequence of tokens: an opening brace, a
\* closing brace, a "key": value member of an object, or other text.
LBrace == [c |-> "{"]
RBrace == [c |-> "}"]
Txt == [c |-> "txt"]
KV(k, v) == [c |-> "kv", k |-> k, v |-> v]

\* json.loads of a slice that starts with "{" and ends with its matching "}":
\* a dict when the slice holds members only (the last of a repeated key wins),
\* JSONDecodeError otherwise.
JsonLoads(slice) ==
    LET inner == SubSeq(slice, 2, Len(slice) - 1)
    IN  IF \A i \in DOMAIN inner : inner[i].c = "kv"
        THEN Ret([k \in {inner[i].k : i \in DOMAIN inner} |->
                    inner[CHOOSE i \in DOMAIN inner :
                            /\ inner[i].k = k
                            /\ \A j \in DOMAIN inner :
                                  inner[j].k = k => j <= i].v])
        ELSE Raise("JSONDecodeError")

\* The index at which the depth of braces, counted from position i on, comes
\* back to 0; 0 when it never does.
RECURSIVE CloseIndex(_, _, _)
CloseIndex(text, i, depth) ==
    IF i > Len(text) THEN 0
    ELSE IF text[i].c = "{" THEN CloseIndex(text, i + 1, depth + 1)
    ELSE IF text[i].c = "}"
         THEN IF depth - 1 = 0 THEN i ELSE CloseIndex(text, i + 1, depth - 1)
    ELSE CloseIndex(text, i + 1, depth)

\* _extract_json: the first JSON object of text, or None.
extract_json(text) ==
    IF \A i \in DOMAIN text : text[i].c # "{" THEN None
    ELSE LET start == CHOOSE i \in DOMAIN text :
                          /\ text[i].c = "{"
                          /\ \A j \in 1..(i - 1) : text[j].c # "{"
             close == CloseIndex(text, start, 0)
         IN  IF close = 0 THEN None
             ELSE LET loaded == JsonLoads(SubSeq(text, start, close))
                  IN  IF loaded.t = "raise" THEN None
                      ELSE [t |-> "dict", v |-> loaded.v]

\* not data, for what _extract_json returns.
NoData(data) == data.t = "none" \/ DOMAIN data.v = {}

\* data.get(key, default)
Get(data, key, default) ==
    IF key \in DOMAIN data.v THEN data.v[key] ELSE default

\* The module's two flags.
GeminiInit == [configured |-> FALSE, disabled |-> FALSE]

\* (os.environ.get("GEMINI_API_KEY") or "").strip()
ApiKey(env_key) == Strip(Or(env_key, StrV(<<>>)).v)

\* _ensure_gemini deciding anew at every call.
ensure_gemini_anew(gem, env_key, configure_ok) ==
    IF ApiKey(env_key) = <<>>
    THEN [ret |-> FALSE, gem |-> [configured |-> TRUE, disabled |-> TRUE]]
    ELSE IF configure_ok
    THEN [ret |-> TRUE, gem |-> [configured |-> TRUE, disabled |-> FALSE]]
    ELSE [ret |-> FALSE, gem |-> [configured |-> TRUE, disabled |-> TRUE]]

\* _ensure_gemini with the remembered decision returned the wrong way round.
ensure_gemini_inverted(gem, env_key, configure_ok) ==
    IF gem.configured
    THEN [ret |-> gem.disabled, gem |-> gem]
    ELSE IF ApiKey(env_key) = <<>>
    THEN [ret |-> FALSE, gem |-> [configured |-> TRUE, disabled |-> TRUE]]
    ELSE IF configure_ok
    THEN [ret |-> TRUE, gem |-> [configured |-> TRUE, disabled |-> FALSE]]
    ELSE [ret |-> FALSE, gem |-> [configured |-> TRUE, disabled |-> TRUE]]

\* _ensure_gemini: [ret, gem].  configure_ok is whether importing and
\* configuring google.generativeai succeeds.
ensure_gemini(gem, env_key, configure_ok) ==
    IF gem.configured
    THEN [ret |-> (gem.disabled = FALSE), gem |-> gem]
    ELSE IF ApiKey(env_key) = <<>>
    THEN [ret |-> FALSE, gem |-> [configured |-> TRUE, disabled |-> TRUE]]
    ELSE IF configure_ok
    THEN [ret |-> TRUE, gem |-> [configured |-> TRUE, disabled |-> FALSE]]
    ELSE [ret |-> FALSE, gem |-> [configured |-> TRUE, disabled |-> TRUE]]

\* (response.text or "").strip() followed by _extract_json; a raised
\* generate_content propagates.
ReplyData(reply) ==
    IF reply.t = "raise" THEN reply ELSE Ret(extract_json(reply.v))

\* [str(r).strip() for r in items if r]
RECURSIVE StrippedTruthy(_)
StrippedTruthy(items) ==
    IF items = <<>> THEN <<>>
    ELSE (IF Truthy(Head(items)) THEN <<Strip(Str(Head(items)))>> ELSE <<>>)
         \o StrippedTruthy(Tail(items))

\* The longest list of reasons a helper returns (the [:6] slices).
MaxReasonsKept == 6

\* eligibility_score_from_full_context, from the reply on: (score, reasons) or
\* None.
FullContextResult(reply) ==
    LET d == ReplyData(reply)
    IN  IF d.t = "raise" THEN None
        ELSE IF NoData(d.v) THEN None
        ELSE LET score == Get(d.v, "score", None)
             IN  IF score.t = "none" THEN None
                 ELSE LET f == Float(score)
                      IN  IF f.t = "raise" THEN None
                          ELSE LET n == IntRound(f.v)
                               IN  IF n.t = "raise" THEN None
                                   ELSE
    LET clipped == Max(0, Min(100, n.v))
        it == Iterate(Or(Get(d.v, "reasons", None), ListV(<<>>)))
    IN  IF it.t = "raise" THEN None
        ELSE LET reasons == Take(StrippedTruthy(it.v), MaxReasonsKept)
             IN  [t |-> "tuple",
                  score |-> clipped,
                  reasons |->
                     IF reasons = <<>>
                     THEN PyStrList(<<<<"Eligibility score: ">> \o IntToStr(clipped)
                                      \o <<"/100 (from full context).">>>>)
                     ELSE PyStrList(reasons)]

\* eligibility_score_from_full_context: [out, gem, api_called].
eligibility_score_from_full_context(health_summary, days_since_last_donation, distance_km, is_available_now, gem, env_key, configure_ok, reply) ==
    LET e == ensure_gemini(gem, env_key, configure_ok)
    IN  IF ~e.ret
        THEN [out |-> None, gem |-> e.gem, api_called |-> FALSE]
        ELSE [out |-> FullContextResult(reply), gem |-> e.gem,
              api_called |-> TRUE]

\* A failed call or a reply without data taken as not eligible.
EligibleResult_fail_closed(reply) ==
    [t |-> "tuple", eligible |-> FALSE,
     reason |-> StrV(<<"Health summary indicates conditions that typically disqualify blood donation.">>)]

\* check_blood_donation_eligible, from the reply on.
EligibleResult(reply) ==
    LET d == ReplyData(reply)
    IN  IF d.t = "raise" THEN None
        ELSE IF NoData(d.v) THEN None
        ELSE IF Truthy(Get(d.v, "eligible", BoolV(TRUE)))
        THEN [t |-> "tuple", eligible |-> TRUE, reason |-> None]
        ELSE LET r == Or(Get(d.v, "reason", None),
                         StrV(<<"Health summary indicates conditions that typically disqualify blood donation.">>))
             IN  IF r.t # "str" THEN None
                 ELSE [t |-> "tuple", eligible |-> FALSE,
                       reason |-> Or(StrV(Strip(r.v)), None)]

\* check_blood_donation_eligible: [out, gem, api_called].
check_blood_donation_eligible(health_summary, gem, env_key, configure_ok, reply) ==
    IF ~Truthy(health_summary) \/ Strip(health_summary.v) = <<>>
    THEN [out |-> [t |-> "tuple", eligible |-> TRUE, reason |-> None],
          gem |-> gem, api_called |-> FALSE]
    ELSE LET e == ensure_gemini(gem, env_key, configure_ok)
         IN  IF ~e.ret
             THEN [out |-> None, gem |-> e.gem, api_called |-> FALSE]
             ELSE [out |-> EligibleResult(reply), gem |-> e.gem,
                   api_called |-> TRUE]

\* allowed, in generate_health_flags_with_gemini.
AllowedFlags ==
    {StrV(recent_illness), StrV(diabetes), StrV(anemia), StrV(bp),
     StrV(medication), StrV(serious_condition)}

\* generate_health_flags_with_gemini, from the reply on.
HealthFlagsResult(reply) ==
    LET d == ReplyData(reply)
    IN  IF d.t = "raise" THEN None
        ELSE IF NoData(d.v) THEN None
        ELSE LET it == Iterate(Or(Get(d.v, "flags", None), ListV(<<>>)))
             IN  IF it.t = "raise" THEN None
                 ELSE IF \E i \in DOMAIN it.v : ~Hashable(it.v[i]) THEN None
                 ELSE ListV(SelectSeq2(it.v, AllowedFlags))

\* generate_health_flags_with_gemini: [out, gem, api_called].
generate_health_flags_with_gemini(health_summary, gem, env_key, configure_ok, reply) ==
    IF ~Truthy(health_summary) \/ Strip(health_summary.v) = <<>>
    THEN [out |-> ListV(<<>>), gem |-> gem, api_called |-> FALSE]
    ELSE LET e == ensure_gemini(gem, env_key, configure_ok)
         IN  IF ~e.ret
             THEN [out |-> None, gem |-> e.gem, api_called |-> FALSE]
             ELSE [out |-> HealthFlagsResult(reply), gem |-> e.gem,
                   api_called |-> TRUE]

\* generate_xai_reasons_with_gemini, from the reply on.
XaiResult(reply) ==
    LET d == ReplyData(reply)
    IN  IF d.t = "raise" THEN None
        ELSE IF NoData(d.v) THEN None
        ELSE LET it == Iterate(Or(Get(d.v, "reasons", None), ListV(<<>>)))
             IN  IF it.t = "raise" THEN None
                 ELSE PyStrList(Take(StrippedTruthy(it.v), MaxReasonsKept))

\* generate_xai_reasons_with_gemini: [out, gem, api_called].
generate_xai_reasons_with_gemini(score, days_since_last_donation, distance_km, is_available_now, health_flag_count, gem, env_key, configure_ok, reply) ==
    LET e == ensure_gemini(gem, env_key, configure_ok)
    IN  IF ~e.ret
        THEN [out |-> None, gem |-> e.gem, api_called |-> FALSE]
        ELSE [out |-> XaiResult(reply), gem |-> e.gem, api_called |-> TRUE]

----------------------------------------------------------------------------
(* eligibility_service.py                                                  *)

\* _model, _scaler, _feature_names: whether each handle is set.
ModelInit == [model |-> FALSE, scaler |-> FALSE, feature_names |-> FALSE]

\* joblib.load of an artifact file.
joblib_load(exists) ==
    IF exists THEN Ret(None) ELSE Raise("FileNotFoundError")

\* _load_model up to its first assignment: "return" when _model is set, the
\* raise when the model file is missing, "load" otherwise.
load_model_check(m, files) ==
    IF m.model THEN Ret("return")
    ELSE IF ~files.model THEN Raise("FileNotFoundError")
    ELSE Ret("load")

\* _model = joblib.load(model_path)
load_model_file(m, files) ==
    LET r == joblib_load(files.model)
    IN  [out |-> r,
         m |-> IF r.t = "ret" THEN [m EXCEPT !.model = TRUE] ELSE m]

\* _scaler = joblib.load(scaler_path)
load_scaler_file(m, files) ==
    LET r == joblib_load(files.scaler)
    IN  [out |-> r,
         m |-> IF r.t = "ret" THEN [m EXCEPT !.scaler = TRUE] ELSE m]

\* _feature_names = joblib.load(names_path)
load_names_file(m, files) ==
    LET r == joblib_load(files.names)
    IN  [out |-> r,
         m |-> IF r.t = "ret" THEN [m EXCEPT !.feature_names = TRUE] ELSE m]

\* _load_model: [out, m].
load_model(m, files) ==
    LET c == load_model_check(m, files)
    IN  IF c.t = "raise" THEN [out |-> c, m |-> m]
        ELSE IF c.v = "return" THEN [out |-> Ret(None), m |-> m]
        ELSE LET a == load_model_file(m, files)
             IN  IF a.out.t = "raise" THEN a
                 ELSE LET b == load_scaler_file(a.m, files)
                      IN  IF b.out.t = "raise" THEN b
                          ELSE load_names_file(b.m, files)

\* health_count in _build_features: len of a list; int(health_flags or 0) of
\* anything else: 0 of what is falsy, the whole part of a number, the value of
\* a run of digits, a TypeError of a non-empty tuple.
HealthCount(health_flags) ==
    IF health_flags.t = "list" THEN Ret(Len(health_flags.v))
    ELSE IF ~Truthy(health_flags) THEN Ret(0)
    ELSE CASE health_flags.t = "num" -> Ret(health_flags.v \div 10)
           [] health_flags.t = "bool" -> Ret(1)
           [] health_flags.t = "str" ->
                 LET s == Strip(health_flags.v)
                 IN  IF s # <<>> /\ Range(s) \subseteq Range(Digits)
                     THEN Ret(DigitsValue(s))
                     ELSE Raise("ValueError")
           [] OTHER -> Raise("TypeError")

\* _build_features: the four features, or the raise of health_count.
build_features(days_since_last_donation, distance_km, is_available_now, health_flags) ==
    LET c == HealthCount(health_flags)
    IN  IF c.t = "raise" THEN c
        ELSE Ret(<<days_since_last_donation, distance_km,
                   IF is_available_now THEN 10 ELSE 0, 10 * c.v>>)

\* The cap of the score under a serious condition.
SeriousCap == 15

\* The rounding without the clip.
ClipRound_unclipped(pred) ==
    IF pred.t = "nan" THEN pred ELSE NumV(10 * RoundHalfEven(pred.v))

\* float(np.clip(np.round(pred), 0, 100)), in units; nan stays nan.
ClipRound(pred) ==
    IF pred.t = "nan" THEN pred
    ELSE NumV(10 * Max(0, Min(100, RoundHalfEven(pred.v))))

\* The score left as it is.
PyMin_uncapped(score, cap) == score

\* min(score, 15) of Python: the first argument unless the second is smaller.
PyMin(score, cap) ==
    IF score.t = "num" /\ 10 * cap < score.v THEN NumV(10 * cap) ELSE score

\* int(score) of a float.
PyInt(score) ==
    IF score.t = "num"
    THEN Ret(IF score.v >= 0 THEN score.v \div 10 ELSE 0 - ((0 - score.v) \div 10))
    ELSE Raise("ValueError")

\* score >= n for a float score (False for nan).
ScoreAtLeast(score, n) == score.t = "num" /\ score.v >= 10 * n

\* The rule-based reasons of compute_score_and_reasons.
RuleReasons(days_since_last_donation, distance_km, is_available_now, flags_list, score) ==
    IF StrV(serious_condition) \in Range(flags_list)
    THEN <<<<"Serious health condition (e.g. cancer) - not eligible for donation">>>>
    ELSE (IF days_since_last_donation >= 90
          THEN <<<<"Eligible by donation gap (90+ days)">>>>
          ELSE IF days_since_last_donation >= 60
          THEN <<<<"Donation gap moderate (60-90 days)">>>>
          ELSE <<<<"Recently donated - check eligibility">>>>)
         \o (IF distance_km <= 50 THEN <<<<"Proximity match - within 5 km">>>>
             ELSE IF distance_km <= 150 THEN <<<<"Within 15 km">>>>
             ELSE <<>>)
         \o (IF is_available_now THEN <<<<"Marked available now">>>> ELSE <<>>)
         \o (IF ScoreAtLeast(score, 80) THEN <<<<"High suitability score">>>>
             ELSE <<>>)

\* The Gemini reasons kept whenever there is a list of them.
ChosenReasons_any_list(gemini_reasons, rule_reasons) ==
    IF gemini_reasons.t = "list" THEN gemini_reasons ELSE rule_reasons

\* if gemini_reasons: reasons = gemini_reasons ... if not reasons: the
\* rule-based reasons.  gemini_reasons is the raise when the try block raised.
ChosenReasons(gemini_reasons, rule_reasons) ==
    IF gemini_reasons.t = "list" /\ Truthy(gemini_reasons)
    THEN gemini_reasons ELSE rule_reasons

\* compute_score_and_reasons after _load_model and _build_features: the score,
\* the Gemini reasons when there are any, the rule-based reasons otherwise.
\* [out, gem, api_called, xai]; xai is what the Gemini helper gave.
ScoreAndReasons(days_since_last_donation, distance_km, is_available_now, health_flags, pred, gem, env_key, configure_ok, reply) ==
    LET clipped == ClipRound(pred)
        flags_list == IF health_flags.t \in {"list", "tuple"}
                      THEN health_flags.v ELSE <<>>
        score == IF StrV(serious_condition) \in Range(flags_list)
                 THEN PyMin(clipped, SeriousCap) ELSE clipped
        arg == PyInt(score)
        g == IF arg.t = "raise"
             THEN [out |-> Raise("ValueError"), gem |-> gem,
                   api_called |-> FALSE]
             ELSE generate_xai_reasons_with_gemini(
                      arg.v, days_since_last_donation, distance_km,
                      is_available_now, HealthCount(health_flags).v,
                      gem, env_key, configure_ok, reply)
        reasons == ChosenReasons(
                       g.out,
                       PyStrList(RuleReasons(days_since_last_donation,
                                             distance_km, is_available_now,
                                             flags_list, score)))
        final == PyInt(score)
    IN  [out |-> IF final.t = "raise" THEN final
                 ELSE Ret([t |-> "tuple", score |-> final.v,
                           reasons |-> reasons]),
         gem |-> g.gem, api_called |-> g.api_called, xai |-> g.out]

\* compute_score_and_reasons once _load_model has returned:
\* [out, gem, api_called, xai].
score_after_load(days_since_last_donation, distance_km, is_available_now, health_flags, m, pred, gem, env_key, configure_ok, reply) ==
    LET x == build_features(days_since_last_donation, distance_km,
                            is_available_now, health_flags)
        failed(e) == [out |-> Raise(e), gem |-> gem, api_called |-> FALSE,
                      xai |-> None]
    IN  IF x.t = "raise" THEN failed(x.exc)
        ELSE IF ~m.scaler THEN failed("AttributeError")
        ELSE ScoreAndReasons(days_since_last_donation, distance_km,
                             is_available_now, health_flags, pred,
                             gem, env_key, configure_ok, reply)

\* compute_score_and_reasons: [out, m, gem, api_called, xai].
compute_score_and_reasons(days_since_last_donation, distance_km, is_available_now, health_flags, m, files, pred, gem, env_key, configure_ok, reply) ==
    LET l == load_model(m, files)
    IN  IF l.out.t = "raise"
        THEN [out |-> l.out, m |-> l.m, gem |-> gem, api_called |-> FALSE,
              xai |-> None]
        ELSE LET s == score_after_load(days_since_last_donation, distance_km,
                                       is_available_now, health_flags, l.m,
                                       pred, gem, env_key, configure_ok, reply)
             IN  [out |-> s.out, m |-> l.m, gem |-> s.gem,
                  api_called |-> s.api_called, xai |-> s.xai]

----------------------------------------------------------------------------
(* train_model.py                                                          *)

\* min_days in rule_based_score.
MinDays == 90

\* rule_based_score with the additions of the two donation gaps exchanged.
rule_based_score_exchanged(days_since, distance_km, is_available, health_flag_count) ==
    LET s1 == 50 + (IF days_since >= MinDays THEN 10
                    ELSE IF days_since >= 60 THEN 25 ELSE 0)
        s2 == s1 + (IF is_available THEN 15 ELSE 0)
        s3 == s2 + (IF distance_km <= 50 THEN 10
                    ELSE IF distance_km <= 150 THEN 5 ELSE 0)
        s4 == IF health_flag_count = 0 THEN s3 + 5
              ELSE s3 - health_flag_count * 10
    IN  Max(0, Min(100, s4))

\* rule_based_score: the score, whose additions are all whole numbers, so
\* that np.round leaves it as it is.
rule_based_score(days_since, distance_km, is_available, health_flag_count) ==
    LET s1 == 50 + (IF days_since >= MinDays THEN 25
                    ELSE IF days_since >= 60 THEN 10 ELSE 0)
        s2 == s1 + (IF is_available THEN 15 ELSE 0)
        s3 == s2 + (IF distance_km <= 50 THEN 10
                    ELSE IF distance_km <= 150 THEN 5 ELSE 0)
        s4 == IF health_flag_count = 0 THEN s3 + 5
              ELSE s3 - health_flag_count * 10
    IN  Max(0, Min(100, s4))

----------------------------------------------------------------------------
(* main.py                                                                 *)

\* A field the JSON body does not hold.
Absent == [t |-> "absent"]

IsStrList(v) ==
    v.t = "list" /\ \A i \in DOMAIN v.v : v.v[i].t = "str"

\* PredictEligibilityBody: three required fields, healthFlags: List[str] = [],
\* healthSummary: Optional[str] = None.
ValidPredictBody(body) ==
    /\ body.daysSinceLastDonation.t = "num"
    /\ body.daysSinceLastDonation.v % 10 = 0
    /\ body.distanceKm.t = "num"
    /\ body.isAvailableNow.t = "bool"
    /\ body.healthFlags.t = "absent" \/ IsStrList(body.healthFlags)
    /\ body.healthSummary.t \in {"absent", "none", "str"}

\* NormalizeHealthBody: text: str, required and not null.
ValidNormalizeBody(body) == body.text.t = "str"

\* The response of a request that fails validation.
Unprocessable == [status |-> 422, body |-> [detail |-> "validation"]]

\* raise HTTPException(status_code, detail=str(e))
HTTPException(status_code, e) ==
    [status |-> status_code, body |-> [detail |-> e]]

\* Every exception answered with 500.
PredictExcept_all_500(exc) == HTTPException(500, exc)

\* The except clauses of predict_eligibility.
PredictExcept(exc) ==
    IF exc = "FileNotFoundError" THEN HTTPException(503, exc)
    ELSE HTTPException(500, exc)

ScoreResponse(tuple) ==
    [status |-> 200,
     body |-> [score |-> tuple.score, reasons |-> tuple.reasons]]

\* The body's fields as predict_eligibility reads them.
DaysOf(body) == body.daysSinceLastDonation.v \div 10
FlagsOf(body) ==
    IF body.healthFlags.t = "absent" THEN ListV(<<>>) ELSE body.healthFlags
SummaryOf(body) ==
    IF body.healthSummary.t = "absent" THEN None ELSE body.healthSummary

\* health_summary = (body.healthSummary or "").strip()
HealthSummary(body) == Strip(Or(SummaryOf(body), StrV(<<>>)).v)

\* The full-context scoring asked for whatever the healthSummary.
predict_full_context_always(body, gem, env_key, configure_ok, reply) ==
    eligibility_score_from_full_context(
        StrV(HealthSummary(body)), DaysOf(body), body.distanceKm.v,
        body.isAvailableNow.v, gem, env_key, configure_ok, reply)

\* predict_eligibility up to compute_score_and_reasons: the Gemini scoring of
\* a non-blank healthSummary.  [out, gem, api_called]; out is None when the
\* handler goes on to compute_score_and_reasons.
predict_full_context(body, gem, env_key, configure_ok, reply) ==
    IF HealthSummary(body) = <<>>
    THEN [out |-> None, gem |-> gem, api_called |-> FALSE]
    ELSE eligibility_score_from_full_context(
             StrV(HealthSummary(body)), DaysOf(body), body.distanceKm.v,
             body.isAvailableNow.v, gem, env_key, configure_ok, reply)

\* What a request leaves in the process and what it gave: the response, the
\* handles, and what was called on the way.
Handled(resp, m, gem, ready, path, api_calls, nltk_called, helper) ==
    [resp |-> resp, m |-> m, gem |-> gem, ready |-> ready, path |-> path,
     api_calls |-> api_calls, nltk_called |-> nltk_called, helper |-> helper]

\* The model path of predict_eligibility once _load_model has returned (or
\* raised, in loaded).
predict_scored(body, loaded, m, gem, ready, env_key, d) ==
    IF loaded.t = "raise"
    THEN Handled(PredictExcept(loaded.exc), m, gem, ready, "model", 0, FALSE,
                 None)
    ELSE LET s == score_after_load(DaysOf(body), body.distanceKm.v,
                                   body.isAvailableNow.v, FlagsOf(body), m,
                                   d.pred, gem, env_key, d.configure_ok,
                                   d.xai_reply)
         IN  Handled(IF s.out.t = "raise" THEN PredictExcept(s.out.exc)
                     ELSE ScoreResponse(s.out.v),
                     m, s.gem, ready, "model",
                     IF s.api_called THEN 1 ELSE 0, FALSE, s.xai)

\* predict_eligibility.  d holds what the environment gives during the
\* request: configure_ok, the replies of Gemini and the model's prediction.
predict_eligibility(body, m, gem, ready, files, env_key, d) ==
    IF ~ValidPredictBody(body)
    THEN Handled(Unprocessable, m, gem, ready, "validation", 0, FALSE, None)
    ELSE LET f == predict_full_context(body, gem, env_key, d.configure_ok,
                                       d.fc_reply)
             n == IF f.api_called THEN 1 ELSE 0
         IN  IF f.out.t # "none"
             THEN Handled(ScoreResponse(f.out), m, f.gem, ready, "gemini", n,
                          FALSE, f.out)
             ELSE LET l == load_model(m, files)
                      s == predict_scored(body, l.out, l.m, f.gem, ready,
                                          env_key, d)
                  IN  [s EXCEPT !.api_calls = @ + n]

\* The Gemini flags used only when there are some.
GeminiFlagsUsed_if_any(gemini_flags) == Truthy(gemini_flags)

\* if gemini_flags is not None: return gemini_flags
GeminiFlagsUsed(gemini_flags) == gemini_flags.t # "none"

\* normalize_health_to_flags: [out, gem, ready, api_called, nltk_called,
\* helper]; helper is what generate_health_flags_with_gemini gave.
normalize_health_to_flags(health_summary, gem, ready, env_key, configure_ok, reply, nltk) ==
    IF ~Truthy(health_summary) \/ health_summary.t # "str"
       \/ normalize_word(health_summary.v) = <<>>
    THEN [out |-> Ret(ListV(<<>>)), gem |-> gem, ready |-> ready,
          api_called |-> FALSE, nltk_called |-> FALSE, helper |-> None]
    ELSE LET g == generate_health_flags_with_gemini(
                      health_summary, gem, env_key, configure_ok, reply)
         IN  IF GeminiFlagsUsed(g.out)
             THEN [out |-> Ret(g.out), gem |-> g.gem, ready |-> ready,
                   api_called |-> g.api_called, nltk_called |-> FALSE,
                   helper |-> g.out]
             ELSE LET k == normalize_health_to_flags_nltk(
                               health_summary.v, nltk, ready)
                  IN  [out |-> k.out, gem |-> g.gem, ready |-> k.ready,
                       api_called |-> g.api_called,
                       nltk_called |-> k.nltk_called, helper |-> g.out]

\* normalize_health.  d: configure_ok, flags_reply, nltk.
normalize_health(body, m, gem, ready, env_key, d) ==
    IF ~ValidNormalizeBody(body)
    THEN Handled(Unprocessable, m, gem, ready, "validation", 0, FALSE, None)
    ELSE LET r == normalize_health_to_flags(
                      Or(body.text, StrV(<<>>)), gem, ready, env_key,
                      d.configure_ok, d.flags_reply, d.nltk)
         IN  Handled(IF r.out.t = "raise" THEN HTTPException(500, r.out.exc)
                     ELSE [status |-> 200, body |-> [flags |-> r.out.v]],
                     m, r.gem, r.ready,
                     IF r.nltk_called THEN "keywords"
                     ELSE IF r.api_called THEN "gemini" ELSE "none",
                     IF r.api_called THEN 1 ELSE 0, r.nltk_called, r.helper)

\* check_eligibility_from_health.  d: configure_ok, eligible_reply.
check_eligibility_from_health(body, m, gem, ready, env_key, d) ==
    IF ~ValidNormalizeBody(body)
    THEN Handled(Unprocessable, m, gem, ready, "validation", 0, FALSE, None)
    ELSE LET r == check_blood_donation_eligible(
                      Or(body.text, StrV(<<>>)), gem, env_key,
                      d.configure_ok, d.eligible_reply)
         IN  Handled(IF r.out.t = "none"
                     THEN [status |-> 200, body |-> [eligible |-> TRUE]]
                     ELSE [status |-> 200,
                           body |-> [eligible |-> r.out.eligible,
                                     reason |-> r.out.reason]],
                     m, r.gem, ready,
                     IF r.api_called THEN "gemini" ELSE "none",
                     IF r.api_called THEN 1 ELSE 0, FALSE, r.out)

\* health
health == [status |-> 200, body |-> [status |-> "ok"]]

----------------------------------------------------------------------------
(* The requests, replies and predictions the model draws from.             *)

\* The longest list of reasons a Gemini reply holds.
MaxReplyReasons == 7

\* What the process is given: the longest text, in words, of a keyword-matcher
\* call and the number of requests in flight at once.
MaxWords == 2
NumThreads == 2

Reason(i) == StrV(<<" ", "reason">> \o IntToStr(i) \o <<" ">>)

\* A reply holding one JSON object with the given members, inside other text.
JsonReply(members) == Ret(<<Txt, LBrace>> \o members \o <<RBrace, Txt>>)

ReasonLists ==
    {ListV(<<>>), ListV(<<StrV(<<" ", " ">>)>>),
     ListV(<<None, Reason(1), NumV(0)>>),
     ListV([i \in 1..MaxReplyReasons |-> Reason(i)])}

\* Replies that hold no usable JSON object: a failed call, and braces around
\* something that is no JSON.
NoJsonReplies ==
    {Raise("GoogleAPIError"), Ret(<<LBrace, Txt, RBrace, Txt, RBrace>>)}

FullContextReplies ==
    NoJsonReplies
    \cup {JsonReply(<<KV("score", NumV(1300)), KV("reasons", r)>>) :
            r \in ReasonLists}
    \cup {JsonReply(<<KV("score", s)>>) :
            s \in {NumV(-15), NumV(795), StrV(<<"8","5">>), StrV(<<"h","i","g","h">>),
                   BoolV(TRUE), None, NaNV, InfV}}
    \cup {JsonReply(<<KV("reasons", ListV(<<Reason(1)>>))>>),
          JsonReply(<<KV("score", NumV(400)), KV("reasons", NumV(30))>>),
          JsonReply(<<KV("score", NumV(400)), KV("reasons", StrV(<<"o","k">>))>>)}

XaiReplies ==
    NoJsonReplies
    \cup {JsonReply(<<KV("reasons", r)>>) : r \in ReasonLists}
    \cup {JsonReply(<<KV("reasons", NumV(30))>>),
          JsonReply(<<KV("score", NumV(400))>>)}

FlagsReplies ==
    NoJsonReplies
    \cup {JsonReply(<<KV("flags", f)>>) :
            f \in {ListV(<<>>), None, StrV(<<"b","p">>), NumV(10),
                   ListV(<<StrV(serious_condition)>>),
                   ListV(<<StrV(bp), StrV(<<"asthma">>), StrV(bp), NumV(10)>>),
                   ListV(<<ListV(<<StrV(bp)>>)>>)}}

EligibleReplies ==
    NoJsonReplies
    \cup {JsonReply(<<KV("eligible", BoolV(TRUE))>>),
          JsonReply(<<KV("reason", StrV(<<"HIV">>))>>),
          JsonReply(<<KV("eligible", BoolV(FALSE))>>),
          JsonReply(<<KV("eligible", None), KV("reason", None)>>)}
    \cup {JsonReply(<<KV("eligible", BoolV(FALSE)), KV("reason", r)>>) :
            r \in {StrV(<<" ", "HIV positive", " ">>), StrV(<<>>),
                   StrV(<<" ", " ">>), NumV(50)}}

\* The raw predictions of the regressor, in tenths.
Predictions == {NumV(-15), NumV(155), NumV(795), NumV(1300), NaNV}

\* What the NLTK installation gives: no resources, a lemmatizer that leaves
\* every word as it is, and WordNet's lemmas of a few words.
WordNetLemmas ==
    [w \in {<<"t","o","o","k">>, <<"d","r","u","g","s">>, <<"i","n","f","e","c","t","e","d">>} |->
        IF w = <<"t","o","o","k">> THEN <<"t","a","k","e">>
        ELSE IF w = <<"d","r","u","g","s">> THEN <<"d","r","u","g">> ELSE <<"i","n","f","e","c","t">>]

NltkInstallations ==
    {[ok |-> FALSE], [ok |-> TRUE, lemma |-> <<>>],
     [ok |-> TRUE, lemma |-> WordNetLemmas]}

PredictBody(days, km10, available, flags, summary) ==
    [daysSinceLastDonation |-> days, distanceKm |-> km10,
     isAvailableNow |-> available, healthFlags |-> flags,
     healthSummary |-> summary]

\* The bodies of test_ml_service.py and check_ml_working.py.
TestBodies ==
    {PredictBody(NumV(1200), NumV(20), BoolV(TRUE), ListV(<<>>), Absent),
     PredictBody(NumV(10), NumV(9990), BoolV(FALSE),
                 PyStrList(<<recent_illness, diabetes, serious_condition>>),
                 Absent),
     PredictBody(NumV(900), NumV(100), BoolV(TRUE), ListV(<<>>), Absent),
     PredictBody(NumV(890), NumV(100), BoolV(TRUE), ListV(<<>>), Absent),
     PredictBody(NumV(0), NumV(0), BoolV(FALSE),
                 PyStrList(<<serious_condition, diabetes, anemia, bp,
                             medication>>), Absent),
     PredictBody(NumV(1200), NumV(20), BoolV(TRUE),
                 PyStrList(<<serious_condition>>), Absent)}

PredictBodies ==
    TestBodies
    \cup {PredictBody(NumV(1200), NumV(20), BoolV(TRUE), Absent, s) :
            s \in {None, StrV(<<" ", "\t">>),
                   StrV(<<" ", "fit and well", " ">>)}}
    \cup {PredictBody(NumV(600), NumV(200), BoolV(FALSE),
                      PyStrList(<<serious_condition>>), StrV(<<"I have cancer">>)),
          PredictBody(NumV(900), Absent, Absent, Absent, Absent),
          PredictBody(None, NumV(20), BoolV(TRUE), ListV(<<>>), Absent)}

NormalizeBodies ==
    {[text |-> t] :
        t \in {Absent, None, StrV(<<>>), StrV(<<" ","\t","\n"," ">>),
               StrV(<<"I"," ","h","a","v","e"," ","c","a","n","c","e","r">>), StrV(<<"o","n"," ","C","h","e","m","o","t","h","e","r","a","p","y">>),
               StrV(<<"I"," ","a","m"," ","d","i","a","b","e","t","i","c"," ","a","n","d"," ","h","a","d"," "," ","f","e","v","e","r"," ","l","a","s","t"," ","w","e","e","k">>),
               StrV(<<"I"," ","l","i","k","e"," ","s","w","i","m","m","i","n","g"," ","a","n","d"," ","y","o","g","a">>)}}

----------------------------------------------------------------------------
(* The service process.                                                    *)

VARIABLES
    artifacts,      \* which of the three artifact files exist
    gemini_api_key, \* os.environ.get("GEMINI_API_KEY")
    mdl,            \* _model, _scaler, _feature_names: set or not
    gem,            \* _gemini_configured, _gemini_disabled
    nltk_ready,     \* _nltk_ready
    last,           \* the request just handled, its response not yet sent
    pc,             \* where each worker thread stands in predict_eligibility
    call            \* a function applied on its own, with its result

vars == <<artifacts, gemini_api_key, mdl, gem, nltk_ready, last, pc, call>>

Threads == 1..NumThreads

NoRequest == [endpoint |-> "none"]
NoCall == [fn |-> "none"]
Idle == [at |-> "idle"]

\* Draws the request did not use.
NoReply == Raise("not called")
NoPrediction == NumV(0)
NoNltk == [ok |-> FALSE]

Draws(configure_ok, fc_reply, pred, xai_reply, flags_reply, eligible_reply, nltk) ==
    [configure_ok |-> configure_ok, fc_reply |-> fc_reply, pred |-> pred,
     xai_reply |-> xai_reply, flags_reply |-> flags_reply,
     eligible_reply |-> eligible_reply, nltk |-> nltk]

NoDraws ==
    Draws(TRUE, NoReply, NoPrediction, NoReply, NoReply, NoReply, NoNltk)

ArtifactSets == [model : BOOLEAN, scaler : BOOLEAN, names : BOOLEAN]
AllArtifacts == [model |-> TRUE, scaler |-> TRUE, names |-> TRUE]
ApiKeys == {None, StrV(<<" ", " ">>), StrV(<<" ", "key", " ">>)}

\* Whether a first _ensure_gemini would try to configure the client.
WouldConfigure(g, env_key) == ~g.configured /\ ApiKey(env_key) # <<>>

\* The request just handled: what it was, what the environment gave it, the
\* handles it found and what it returned.
Observed(endpoint, thread, body, d, h) ==
    [endpoint |-> endpoint, thread |-> thread, body |-> body,
     d |-> [d EXCEPT !.configure_ok = (h.gem = gem) \/ @],
     pre_mdl |-> mdl, pre_gem |-> gem, pre_ready |-> nltk_ready,
     resp |-> h.resp, path |-> h.path, api_calls |-> h.api_calls,
     nltk_called |-> h.nltk_called, helper |-> h.helper]

Finish(endpoint, thread, body, d, h) ==
    /\ mdl' = h.m
    /\ gem' = h.gem
    /\ nltk_ready' = h.ready
    /\ last' = Observed(endpoint, thread, body, d, h)

Init ==
    /\ artifacts \in ArtifactSets
    /\ gemini_api_key \in ApiKeys
    /\ mdl = ModelInit
    /\ gem = GeminiInit
    /\ nltk_ready = FALSE
    /\ last = NoRequest
    /\ pc = [t \in Threads |-> Idle]
    /\ call = NoCall

\* POST /predict-eligibility, handled from start to end.
PredictEligibility ==
    /\ last = NoRequest
    /\ \E body \in PredictBodies :
       \E configure_ok \in IF WouldConfigure(gem, gemini_api_key)
                              /\ ValidPredictBody(body)
                           THEN BOOLEAN ELSE {TRUE} :
          LET valid == ValidPredictBody(body)
              available == ensure_gemini(gem, gemini_api_key, configure_ok).ret
              asks == valid /\ HealthSummary(body) # <<>> /\ available
          IN  \E fc_reply \in IF asks THEN FullContextReplies ELSE {NoReply} :
                 LET f == predict_full_context(body, gem, gemini_api_key,
                                               configure_ok, fc_reply)
                     l == load_model(mdl, artifacts)
                     scores == /\ valid
                               /\ (~asks \/ f.out.t = "none")
                               /\ l.out.t = "ret"
                               /\ l.m.scaler
                 IN  \E pred \in IF scores THEN Predictions
                                 ELSE {NoPrediction} :
                     \E xai_reply \in IF scores /\ available /\ pred.t # "nan"
                                      THEN XaiReplies ELSE {NoReply} :
                        LET d == Draws(configure_ok, fc_reply, pred, xai_reply,
                                       NoReply, NoReply, NoNltk)
                        IN  Finish("predict-eligibility", 0, body, d,
                                   predict_eligibility(
                                       body, mdl, gem, nltk_ready, artifacts,
                                       gemini_api_key, d))
    /\ UNCHANGED <<artifacts, gemini_api_key, pc, call>>

\* Whether the text of a body is a non-blank string.
HasText(body) ==
    ValidNormalizeBody(body) /\ normalize_word(body.text.v) # <<>>

\* POST /normalize-health
NormalizeHealth ==
    /\ last = NoRequest
    /\ \E body \in NormalizeBodies :
       \E configure_ok \in IF WouldConfigure(gem, gemini_api_key)
                              /\ HasText(body)
                           THEN BOOLEAN ELSE {TRUE} :
          LET available == ensure_gemini(gem, gemini_api_key, configure_ok).ret
              asks == HasText(body) /\ available
          IN  \E flags_reply \in IF asks THEN FlagsReplies ELSE {NoReply} :
                 LET matches ==
                        /\ HasText(body)
                        /\ (~asks \/ HealthFlagsResult(flags_reply).t = "none")
                 IN  \E nltk \in IF matches THEN NltkInstallations
                                 ELSE {NoNltk} :
                        LET d == Draws(configure_ok, NoReply, NoPrediction,
                                       NoReply, flags_reply, NoReply, nltk)
                        IN  Finish("normalize-health", 0, body, d,
                                   normalize_health(body, mdl, gem, nltk_ready,
                                                    gemini_api_key, d))
    /\ UNCHANGED <<artifacts, gemini_api_key, pc, call>>

\* POST /check-eligibility-from-health
CheckEligibilityFromHealth ==
    /\ last = NoRequest
    /\ \E body \in NormalizeBodies :
       \E configure_ok \in IF WouldConfigure(gem, gemini_api_key)
                              /\ HasText(body)
                           THEN BOOLEAN ELSE {TRUE} :
          LET available == ensure_gemini(gem, gemini_api_key, configure_ok).ret
              asks == HasText(body) /\ available
          IN  \E eligible_reply \in IF asks THEN EligibleReplies
                                    ELSE {NoReply} :
                 LET d == Draws(configure_ok, NoReply, NoPrediction, NoReply,
                                NoReply, eligible_reply, NoNltk)
                 IN  Finish("check-eligibility-from-health", 0, body, d,
                            check_eligibility_from_health(
                                body, mdl, gem, nltk_ready, gemini_api_key, d))
    /\ UNCHANGED <<artifacts, gemini_api_key, pc, call>>

\* GET /health
Health ==
    /\ last = NoRequest
    /\ Finish("health", 0, None, NoDraws,
              Handled(health, mdl, gem, nltk_ready, "none", 0, FALSE, None))
    /\ UNCHANGED <<artifacts, gemini_api_key, pc, call>>

\* The response of the request just handled goes out.
Respond ==
    /\ last # NoRequest
    /\ last' = NoRequest
    /\ UNCHANGED <<artifacts, gemini_api_key, mdl, gem, nltk_ready, pc, call>>

\* The environment: an artifact file is written (train_model.py) or removed.
SetArtifact ==
    /\ last = NoRequest
    /\ \E name \in {"model", "scaler", "names"} :
          artifacts' = [artifacts EXCEPT ![name] = ~@]
    /\ UNCHANGED <<gemini_api_key, mdl, gem, nltk_ready, last, pc, call>>

\* The environment: GEMINI_API_KEY is set, blanked or unset.
SetApiKey ==
    /\ last = NoRequest
    /\ \E k \in ApiKeys \ {gemini_api_key} : gemini_api_key' = k
    /\ UNCHANGED <<artifacts, mdl, gem, nltk_ready, last, pc, call>>

Next ==
    \/ PredictEligibility
    \/ NormalizeHealth
    \/ CheckEligibilityFromHealth
    \/ Health
    \/ Respond
    \/ SetArtifact
    \/ SetApiKey

Spec == Init /\ [][Next]_vars

----------------------------------------------------------------------------
(* Two worker threads in predict_eligibility: the statements of            *)
(* _load_model run one at a time, the threads taking turns in any order.   *)

\* The bodies the threads are given: no healthSummary, so that each request
\* goes to compute_score_and_reasons.
ConcBodies ==
    {PredictBody(NumV(1200), NumV(20), BoolV(TRUE), ListV(<<>>), Absent),
     PredictBody(NumV(10), NumV(9990), BoolV(FALSE),
                 PyStrList(<<recent_illness, diabetes, serious_condition>>),
                 Absent)}

At(t, where) == pc[t].at = where
Goto(t, where) == pc' = [pc EXCEPT ![t] = [at |-> where, body |-> pc[t].body]]

\* The thread's request ends with the exception exc, raised in _load_model.
LoadFailed(t, exc) ==
    /\ last = NoRequest
    /\ last' = Observed("predict-eligibility", t, pc[t].body, NoDraws,
                        predict_scored(pc[t].body, exc, mdl, gem, nltk_ready,
                                       gemini_api_key, NoDraws))
    /\ pc' = [pc EXCEPT ![t] = Idle]

\* A thread takes a request up to the call of _load_model.
Receive(t) ==
    /\ At(t, "idle")
    /\ \E body \in ConcBodies :
          pc' = [pc EXCEPT ![t] = [at |-> "load_model_check", body |-> body]]
    /\ UNCHANGED <<artifacts, gemini_api_key, mdl, gem, nltk_ready, last, call>>

\* if _model is not None: return; if not os.path.isfile(model_path): raise
LoadModelCheck(t) ==
    /\ At(t, "load_model_check")
    /\ LET c == load_model_check(mdl, artifacts)
       IN  IF c.t = "raise"
           THEN LoadFailed(t, c)
           ELSE /\ Goto(t, IF c.v = "return" THEN "score" ELSE "load_model_file")
                /\ UNCHANGED last
    /\ UNCHANGED <<artifacts, gemini_api_key, mdl, gem, nltk_ready, call>>

\* One of the three assignments of _load_model.
LoadStep(t, r, then) ==
    /\ mdl' = r.m
    /\ IF r.out.t = "raise"
       THEN LoadFailed(t, r.out)
       ELSE Goto(t, then) /\ UNCHANGED last
    /\ UNCHANGED <<artifacts, gemini_api_key, gem, nltk_ready, call>>

LoadModelFile(t) ==
    /\ At(t, "load_model_file")
    /\ LoadStep(t, load_model_file(mdl, artifacts), "load_scaler_file")

LoadScalerFile(t) ==
    /\ At(t, "load_scaler_file")
    /\ LoadStep(t, load_scaler_file(mdl, artifacts), "load_names_file")

LoadNamesFile(t) ==
    /\ At(t, "load_names_file")
    /\ LoadStep(t, load_names_file(mdl, artifacts), "score")

\* compute_score_and_reasons from _build_features on, and the response.
Score(t) ==
    /\ At(t, "score")
    /\ last = NoRequest
    /\ \E configure_ok \in IF WouldConfigure(gem, gemini_api_key) /\ mdl.scaler
                           THEN BOOLEAN ELSE {TRUE} :
       \E pred \in IF mdl.scaler THEN Predictions ELSE {NoPrediction} :
       \E xai_reply \in IF /\ mdl.scaler
                           /\ pred.t # "nan"
                           /\ ensure_gemini(gem, gemini_api_key,
                                            configure_ok).ret
                        THEN XaiReplies ELSE {NoReply} :
          LET d == Draws(configure_ok, NoReply, pred, xai_reply, NoReply,
                         NoReply, NoNltk)
          IN  Finish("predict-eligibility", t, pc[t].body, d,
                     predict_scored(pc[t].body, Ret(None), mdl, gem,
                                    nltk_ready, gemini_api_key, d))
    /\ pc' = [pc EXCEPT ![t] = Idle]
    /\ UNCHANGED <<artifacts, gemini_api_key, call>>

InitConc ==
    /\ artifacts = AllArtifacts
    /\ gemini_api_key \in ApiKeys
    /\ mdl = ModelInit
    /\ gem = GeminiInit
    /\ nltk_ready = FALSE
    /\ last = NoRequest
    /\ pc = [t \in Threads |-> Idle]
    /\ call = NoCall

NextConc ==
    \/ \E t \in Threads : Receive(t)
    \/ \E t \in Threads : LoadModelCheck(t)
    \/ \E t \in Threads : LoadModelFile(t)
    \/ \E t \in Threads : LoadScalerFile(t)
    \/ \E t \in Threads : LoadNamesFile(t)
    \/ \E t \in Threads : Score(t)
    \/ Respond

SpecConc == InitConc /\ [][NextConc]_vars

----------------------------------------------------------------------------
(* The functions applied on their own: the arguments and what the          *)
(* environment gives are drawn at the start, the call is made once.        *)

\* The most words of a text given to the keyword matcher is MaxWords; the
\* most flags counted by rule_based_score is the number of flags there are.
DayCounts == {0, 30, 59, 60, 61, 89, 90, 91, 365}
Distances == {0, 50, 51, 150, 151, 500}
FlagCounts == 0..Len(HEALTH_FLAGS)

\* health_flags as the callers of compute_score_and_reasons can pass it.
FlagArguments ==
    {ListV(<<>>), PyStrList(<<serious_condition>>),
     PyStrList(<<diabetes, serious_condition, bp>>), PyStrList(<<diabetes>>),
     [t |-> "tuple", v |-> <<StrV(serious_condition)>>], NumV(20),
     StrV(serious_condition)}

Pending(fn, args, d) ==
    [fn |-> fn, args |-> args, d |-> d, done |-> FALSE, pre_mdl |-> ModelInit,
     pre_gem |-> GeminiInit, result |-> None]

ScoreCalls ==
    {Pending("compute_score_and_reasons",
             [days |-> days, distance_km |-> km, is_available_now |-> a,
              health_flags |-> f],
             Draws(ok, NoReply, pred, reply, NoReply, NoReply, NoNltk)) :
        days \in {30, 60, 89, 90}, km \in {50, 151}, a \in BOOLEAN,
        f \in FlagArguments, pred \in Predictions, ok \in BOOLEAN,
        reply \in XaiReplies}

RuleScoreCalls ==
    {Pending("rule_based_score",
             [days_since |-> days, distance_km |-> km, is_available |-> a,
              health_flag_count |-> h], NoDraws) :
        days \in DayCounts, km \in Distances, a \in BOOLEAN,
        h \in FlagCounts}

\* Words of health summaries; some hold a term of HEALTH_TERMS, one only
\* inside another word, one with punctuation.
Vocabulary ==
    {<<"I">>, <<"h","a","v","e">>, <<"C","a","n","c","e","r",".">>, <<"w","i","l","l">>, <<"d","i","a","b","e","t","i","c">>, <<"f","e","v","e","r">>,
     <<"r","u","n","n","i","n","g">>, <<"n","o","s","e">>}

Separators == {<<" ">>, <<" ", "\n", " ">>}

RECURSIVE TextsOf(_, _)
TextsOf(n, sep) ==
    IF n = 0 THEN {<<>>}
    ELSE LET shorter == TextsOf(n - 1, sep)
         IN  shorter \cup {w \o sep \o s : w \in Vocabulary, s \in shorter}

MatcherTexts == UNION {TextsOf(MaxWords, sep) : sep \in Separators}

MatcherCalls ==
    {Pending("_normalize_health_to_flags_nltk", [health_summary |-> s],
             Draws(TRUE, NoReply, NoPrediction, NoReply, NoReply, NoReply,
                   nltk)) :
        s \in MatcherTexts, nltk \in NltkInstallations}

\* The handles a call of compute_score_and_reasons can find, with the files.
LoadedModel == [model |-> TRUE, scaler |-> TRUE, feature_names |-> TRUE]

HandlesAndFiles ==
    {<<ModelInit, AllArtifacts>>,
     <<ModelInit, [AllArtifacts EXCEPT !.model = FALSE]>>,
     <<ModelInit, [AllArtifacts EXCEPT !.scaler = FALSE]>>,
     <<LoadedModel, AllArtifacts>>,
     <<[ModelInit EXCEPT !.model = TRUE], AllArtifacts>>}

Pends(fn) == call.fn = fn /\ ~call.done

Returned(fn) == call.fn = fn /\ call.done /\ call.result.out.t = "ret"

CallComputeScoreAndReasons ==
    /\ Pends("compute_score_and_reasons")
    /\ LET r == compute_score_and_reasons(
                    call.args.days, call.args.distance_km,
                    call.args.is_available_now, call.args.health_flags,
                    mdl, artifacts, call.d.pred, gem, gemini_api_key,
                    call.d.configure_ok, call.d.xai_reply)
       IN  /\ call' = [call EXCEPT !.done = TRUE, !.pre_mdl = mdl,
                                     !.pre_gem = gem, !.result = r]
           /\ mdl' = r.m
           /\ gem' = r.gem
    /\ UNCHANGED <<artifacts, gemini_api_key, nltk_ready, last, pc>>

CallRuleBasedScore ==
    /\ Pends("rule_based_score")
    /\ call' = [call EXCEPT
                   !.done = TRUE,
                   !.result = [out |-> Ret(rule_based_score(
                                   call.args.days_since, call.args.distance_km,
                                   call.args.is_available,
                                   call.args.health_flag_count))]]
    /\ UNCHANGED <<artifacts, gemini_api_key, mdl, gem, nltk_ready, last, pc>>

CallKeywordMatcher ==
    /\ Pends("_normalize_health_to_flags_nltk")
    /\ LET r == normalize_health_to_flags_nltk(call.args.health_summary,
                                               call.d.nltk, nltk_ready)
       IN  /\ call' = [call EXCEPT !.done = TRUE, !.result = r]
           /\ nltk_ready' = r.ready
    /\ UNCHANGED <<artifacts, gemini_api_key, mdl, gem, last, pc>>

InitFn ==
    /\ call \in ScoreCalls \cup RuleScoreCalls \cup MatcherCalls
    /\ IF call.fn = "compute_score_and_reasons"
       THEN /\ \E hf \in HandlesAndFiles : mdl = hf[1] /\ artifacts = hf[2]
            /\ gemini_api_key \in
                  IF call.d.configure_ok /\ call.d.xai_reply = Raise("GoogleAPIError")
                  THEN {None, StrV(<<" ", "key", " ">>)}
                  ELSE {StrV(<<" ", "key", " ">>)}
       ELSE /\ mdl = ModelInit
            /\ artifacts = AllArtifacts
            /\ gemini_api_key = None
    /\ gem = GeminiInit
    /\ nltk_ready = FALSE
    /\ last = NoRequest
    /\ pc = [t \in Threads |-> Idle]

NextFn ==
    \/ CallComputeScoreAndReasons
    \/ CallRuleBasedScore
    \/ CallKeywordMatcher

SpecFn == InitFn /\ [][NextFn]_vars

----------------------------------------------------------------------------
(* The properties.                                                         *)

IsPredict == last.endpoint = "predict-eligibility"
IsNormalize == last.endpoint = "normalize-health"

HasScoreAndReasons(resp) ==
    /\ DOMAIN resp.body = {"score", "reasons"}
    /\ resp.body.score \in Int
    /\ resp.body.reasons.t = "list"

\* C1: every 200 response of POST /predict-eligibility carries an integer
\* score between 0 and 100, on the Gemini path and on the model path, whatever
\* raw value the reply or the prediction held.
C1_ScoreInRange ==
    (IsPredict /\ last.resp.status = 200) => last.resp.body.score \in 0..100

\* A Gemini reply with the score 130 has been answered with the score 100.
C1_Witness ==
    /\ IsPredict
    /\ last.path = "gemini"
    /\ last.resp.status = 200
    /\ \E i \in DOMAIN last.d.fc_reply.v :
          last.d.fc_reply.v[i] = KV("score", NumV(1300))
    /\ last.resp.body.score = 100

\* Whether health_flags holds the flag: as an item of a list or tuple, or as
\* the text of a string.
HoldsFlag(health_flags, flag) ==
    CASE health_flags.t \in {"list", "tuple"} ->
            StrV(flag) \in Range(health_flags.v)
      [] health_flags.t = "str" -> health_flags.v = flag
      [] OTHER -> FALSE

\* C2: a call of compute_score_and_reasons whose health_flags contains
\* serious_condition and which returns, returns a score of at most 15, whatever
\* the prediction and the other arguments.
C2_SeriousCap ==
    (/\ Returned("compute_score_and_reasons")
     /\ HoldsFlag(call.args.health_flags, serious_condition))
    => call.result.out.v.score <= SeriousCap

\* A prediction of 130 with serious_condition among the flags gave 15.
C2_Witness ==
    /\ Returned("compute_score_and_reasons")
    /\ HoldsFlag(call.args.health_flags, serious_condition)
    /\ call.d.pred = NumV(1300)
    /\ call.result.out.v.score = SeriousCap

\* C3, as the specification states it: on the model path 503 answers a missing
\* model file and nothing else, every other exception is answered with 500,
\* and a 200 holds a score and reasons.
C3_Original ==
    (IsPredict /\ last.path = "model") =>
        /\ last.resp.status \in {200, 500, 503}
        /\ (last.resp.status = 503)
              <=> (~last.pre_mdl.model /\ ~artifacts.model)
        /\ last.resp.status = 200 => HasScoreAndReasons(last.resp)

\* C3, amended: on the model path 503 answers every FileNotFoundError of
\* _load_model, which is raised when the model is not loaded and any of the
\* three artifact files is missing; every other exception is answered with
\* 500; a 200 holds a score and reasons.
C3_Amended ==
    (IsPredict /\ last.path = "model") =>
        /\ last.resp.status \in {200, 500, 503}
        /\ (last.resp.status = 503)
              <=> (~last.pre_mdl.model /\ artifacts # AllArtifacts)
        /\ last.resp.status = 500
              => last.resp.body.detail # "FileNotFoundError"
        /\ last.resp.status = 200 => HasScoreAndReasons(last.resp)

\* The model file is there, the scaler file is not, and the answer is 503.
C3_Witness ==
    /\ IsPredict
    /\ last.path = "model"
    /\ artifacts.model
    /\ ~artifacts.scaler
    /\ ~last.pre_mdl.model
    /\ last.resp.status = 503

\* What a process that has handled nothing answers to the request just
\* handled, in the same environment.
FreshOutcome ==
    IF IsPredict
    THEN predict_eligibility(last.body, ModelInit, GeminiInit, FALSE,
                             artifacts, gemini_api_key, last.d).resp
    ELSE normalize_health(last.body, ModelInit, GeminiInit, FALSE,
                          gemini_api_key, last.d).resp

HandlesAgree ==
    /\ \/ last.pre_mdl = ModelInit
       \/ last.pre_mdl.model /\ last.pre_mdl.scaler /\ artifacts = AllArtifacts
    /\ \/ ~last.pre_gem.configured
       \/ last.pre_gem.disabled <=> (ApiKey(gemini_api_key) = <<>>)

C5_BothScored ==
    /\ \A t \in Threads : At(t, "score") => mdl.scaler
    /\ (IsPredict /\ last.d.pred.t = "num") => last.resp.status = 200

\* C6: compute_score_and_reasons returns the list of the Gemini helper when
\* that list is not empty and the rule-based reasons otherwise; its score, and
\* whether it raises, are those of the same call without Gemini.
WithoutGemini ==
    compute_score_and_reasons(
        call.args.days, call.args.distance_km, call.args.is_available_now,
        call.args.health_flags, call.pre_mdl, artifacts, call.d.pred,
        GeminiInit, None, TRUE, NoReply).out

C6_FallbackChain ==
    (call.fn = "compute_score_and_reasons" /\ call.done) =>
        LET out == call.result.out
            xai == call.result.xai
        IN  /\ out.t = WithoutGemini.t
            /\ out.t = "raise" => out = WithoutGemini
            /\ out.t = "ret" =>
                  /\ out.v.score = WithoutGemini.v.score
                  /\ out.v.reasons # ListV(<<>>)
                  /\ out.v.reasons =
                        IF xai.t = "list" /\ xai.v # <<>> THEN xai
                        ELSE WithoutGemini.v.reasons

\* The helper returned an empty list and the reasons are the rule-based ones.
C6_Witness ==
    /\ Returned("compute_score_and_reasons")
    /\ call.result.api_called
    /\ call.result.xai = ListV(<<>>)
    /\ call.result.out.v.reasons = WithoutGemini.v.reasons
    /\ call.result.out.v.reasons # ListV(<<>>)

IsBlank(v) == v.t = "str" /\ Range(v.v) \subseteq Whitespace

\* C7: POST /normalize-health with an empty or whitespace-only text answers
\* 200 with no flags, with no call of Gemini and none of the keyword matcher.
C7_BlankText ==
    (IsNormalize /\ IsBlank(last.body.text)) =>
        /\ last.resp.status = 200
        /\ last.resp.body.flags = ListV(<<>>)
        /\ last.api_calls = 0
        /\ ~last.nltk_called

\* A whitespace-only text handled while Gemini is available.
C7_Witness ==
    /\ IsNormalize
    /\ IsBlank(last.body.text)
    /\ last.body.text.v # <<>>
    /\ last.pre_gem.configured
    /\ ~last.pre_gem.disabled
    /\ last.resp.status = 200
    /\ last.api_calls = 0

\* C8: POST /normalize-health with text null answers 200 with no flags, and a
\* body without text answers 422.
C8_NullText ==
    IsNormalize =>
        /\ last.body.text.t = "none" =>
              /\ last.resp.status = 200
              /\ last.resp.body.flags = ListV(<<>>)
        /\ last.body.text.t = "absent" => last.resp.status = 422

\* C9: a returning call of _normalize_health_to_flags_nltk reports every flag
\* one of whose terms is contained in the lower-cased, whitespace-collapsed
\* text.
C9_KeywordMatch ==
    Returned("_normalize_health_to_flags_nltk") =>
        \A f \in DOMAIN HEALTH_FLAGS :
            LET flag == HEALTH_FLAGS[f]
                text == Lower(RStrip(LStrip(CollapseWhitespace(
                            call.args.health_summary))))
            IN  (\E i \in DOMAIN HEALTH_TERMS(flag) :
                    IsSubstring(HEALTH_TERMS(flag)[i], text))
                => StrV(flag) \in Range(call.result.out.v.v)

\* A text whose only term is inside another word, and whose flag is reported.
C9_Witness ==
    /\ Returned("_normalize_health_to_flags_nltk")
    /\ call.args.health_summary = <<"I", " ", "w", "i", "l", "l", " ">>
    /\ call.result.out.v = PyStrList(<<recent_illness>>)

\* The served score of the call made, had the prediction been pred.
ScoreWith(pred) ==
    compute_score_and_reasons(
        call.args.days, call.args.distance_km, call.args.is_available_now,
        call.args.health_flags, call.pre_mdl, artifacts, pred,
        call.pre_gem, gemini_api_key, call.d.configure_ok,
        call.d.xai_reply).out

C11_ReasonsCount ==
    (IsPredict /\ last.resp.status = 200) =>
        /\ last.resp.body.reasons.t = "list"
        /\ Len(last.resp.body.reasons.v) \in 1..MaxReasonsKept

\* A full-context reply with more than six reasons answered with six.
C11_Witness ==
    /\ IsPredict
    /\ last.path = "gemini"
    /\ last.resp.status = 200
    /\ \E i \in DOMAIN last.d.fc_reply.v :
          /\ "k" \in DOMAIN last.d.fc_reply.v[i]
          /\ last.d.fc_reply.v[i].k = "reasons"
          /\ last.d.fc_reply.v[i].v.t = "list"
          /\ Len(last.d.fc_reply.v[i].v.v) > MaxReasonsKept
    /\ Len(last.resp.body.reasons.v) = MaxReasonsKept

IsCheck == last.endpoint = "check-eligibility-from-health"

\* What _extract_json finds in the reply the request got, None when the call
\* raised.
ParsedReply(reply) == IF reply.t = "raise" THEN None ELSE extract_json(reply.v)

\* C12: POST /check-eligibility-from-health with a text answers 200; the
\* answer is eligible = true when the text is blank, when Gemini is not
\* available, when the call raises and when the reply holds no JSON object;
\* it is eligible = false only when the parsed reply holds a falsy eligible.
C12_FailsOpen ==
    (IsCheck /\ last.body.text.t = "str") =>
        LET parsed == ParsedReply(last.d.eligible_reply)
            available == ensure_gemini(last.pre_gem, gemini_api_key,
                                       last.d.configure_ok).ret
        IN  /\ last.resp.status = 200
            /\ last.resp.body.eligible \in BOOLEAN
            /\ (\/ IsBlank(last.body.text)
                \/ ~available
                \/ last.d.eligible_reply.t = "raise"
                \/ NoData(parsed))
               => last.resp.body.eligible
            /\ ~last.resp.body.eligible
               => /\ ~IsBlank(last.body.text)
                  /\ available
                  /\ ~NoData(parsed)
                  /\ ~Truthy(Get(parsed, "eligible", BoolV(TRUE)))

\* The Gemini call was made, raised, and the answer is eligible = true.
C12_Witness ==
    /\ IsCheck
    /\ last.api_calls = 1
    /\ last.d.eligible_reply.t = "raise"
    /\ last.resp.status = 200
    /\ last.resp.body.eligible

\* C13: every 200 response of POST /predict-eligibility to a request whose
\* healthFlags holds serious_condition has a score of at most 15, whichever
\* scorer gave it.
C13_SeriousCapEveryScorer ==
    (/\ IsPredict
     /\ last.resp.status = 200
     /\ HoldsFlag(FlagsOf(last.body), serious_condition))
    => last.resp.body.score <= SeriousCap

\* C14: after any sequence of calls of _load_model, _model is set only if
\* _scaler and _feature_names are set too.
C14_AllOrNothing ==
    mdl.model => (mdl.scaler /\ mdl.feature_names)

\* C15: predict_eligibility asks Gemini for a full-context score only when
\* healthSummary is not blank; when that gives a result the response is that
\* score and those reasons and the model handles are left as they were;
\* otherwise the response is what compute_score_and_reasons gives for the
\* request's healthFlags.
C15_ScorerOrder ==
    (IsPredict /\ ValidPredictBody(last.body)) =>
        LET summary == SummaryOf(last.body)
            blank == summary.t # "str" \/ IsBlank(summary)
            f == eligibility_score_from_full_context(
                     StrV(HealthSummary(last.body)), DaysOf(last.body),
                     last.body.distanceKm.v, last.body.isAvailableNow.v,
                     last.pre_gem, gemini_api_key, last.d.configure_ok,
                     last.d.fc_reply)
            c == compute_score_and_reasons(
                     DaysOf(last.body), last.body.distanceKm.v,
                     last.body.isAvailableNow.v, FlagsOf(last.body),
                     last.pre_mdl, artifacts, last.d.pred,
                     IF blank THEN last.pre_gem ELSE f.gem, gemini_api_key,
                     last.d.configure_ok, last.d.xai_reply)
        IN  IF ~blank /\ f.out.t # "none"
            THEN /\ last.resp.status = 200
                 /\ last.resp.body.score = f.out.score
                 /\ last.resp.body.reasons = f.out.reasons
                 /\ mdl = last.pre_mdl
                 /\ last.api_calls = 1
            ELSE /\ last.resp = IF c.out.t = "raise"
                                THEN PredictExcept(c.out.exc)
                                ELSE ScoreResponse(c.out.v)
                 /\ mdl = c.m
                 /\ blank => /\ last.api_calls = IF c.api_called THEN 1 ELSE 0
                             /\ gem = c.gem

\* A full-context result answered with the model file missing and nothing
\* loaded.
C15_Witness ==
    /\ IsPredict
    /\ last.path = "gemini"
    /\ last.resp.status = 200
    /\ ~artifacts.model
    /\ mdl = ModelInit

\* The Gemini helper of the request gave its no-result value, or was not
\* reached (int(score) raised before it), or was given a blank text.
NoGeminiResult ==
    \/ last.helper.t \in {"none", "raise"}
    \/ IsCheck /\ IsBlank(last.body.text)

\* C16: a request that is the first to need Gemini and finds GEMINI_API_KEY
\* missing or blank leaves Gemini disabled; a request that finds Gemini
\* disabled makes no Gemini call, leaves the decision as it is and has the
\* no-result value of its helper, whatever the key is by then.
C16_DecidedOnce ==
    last # NoRequest =>
        /\ (/\ ~last.pre_gem.configured
            /\ gem.configured
            /\ ApiKey(gemini_api_key) = <<>>)
           => (gem.disabled /\ last.api_calls = 0 /\ NoGeminiResult)
        /\ (last.pre_gem.configured /\ last.pre_gem.disabled)
           => /\ gem = last.pre_gem
              /\ last.api_calls = 0
              /\ last.path # "gemini"
              /\ NoGeminiResult

\* A request with a healthSummary, handled after Gemini was disabled and with
\* a key in the environment by now, scored by the model without a call.
C16_Witness ==
    /\ IsPredict
    /\ last.pre_gem.disabled
    /\ ApiKey(gemini_api_key) # <<>>
    /\ HealthSummary(last.body) # <<>>
    /\ last.resp.status = 200
    /\ last.path = "model"
    /\ last.api_calls = 0

\* C17: for a text that is not blank, normalize_health_to_flags returns the
\* list of generate_health_flags_with_gemini when that is a list, the empty
\* list too, with no call of the keyword matcher; it returns what
\* _normalize_health_to_flags_nltk gives exactly when the helper gives None.
C17_FlagsFallbackChain ==
    (IsNormalize /\ last.body.text.t = "str" /\ ~IsBlank(last.body.text)) =>
        LET g == generate_health_flags_with_gemini(
                     last.body.text, last.pre_gem, gemini_api_key,
                     last.d.configure_ok, last.d.flags_reply).out
            k == normalize_health_to_flags_nltk(
                     last.body.text.v, last.d.nltk, last.pre_ready).out
        IN  IF g.t = "list"
            THEN /\ last.resp.status = 200
                 /\ last.resp.body.flags = g
                 /\ Range(g.v) \subseteq AllowedFlags
                 /\ ~last.nltk_called
            ELSE /\ g.t = "none"
                 /\ last.nltk_called
                 /\ IF k.t = "raise" THEN last.resp.status = 500
                    ELSE /\ last.resp.status = 200
                         /\ last.resp.body.flags = k.v

\* Gemini gave the empty list for a text that holds a keyword, and the flags
\* are the empty list.
C17_Witness ==
    /\ IsNormalize
    /\ last.api_calls = 1
    /\ last.helper = ListV(<<>>)
    /\ ~last.nltk_called
    /\ last.resp.body.flags = ListV(<<>>)
    /\ normalize_health_to_flags_nltk(
           last.body.text.v, [ok |-> TRUE, lemma |-> <<>>], FALSE).out.v
          # ListV(<<>>)

\* C18: every 200 of /normalize-health has a flag list in which every entry
\* is one of the six flag names and no name occurs twice.
C18_FlagsWellFormed ==
    (IsNormalize /\ last.resp.status = 200) =>
        LET flags == last.resp.body.flags.v
        IN  /\ Range(flags) \subseteq AllowedFlags
            /\ \A i, j \in 1..Len(flags) : flags[i] = flags[j] => i = j

\* C19: when check_blood_donation_eligible says not eligible, the response
\* of /check-eligibility-from-health holds a reason that is a non-empty
\* string.
C19_ReasonWhenIneligible ==
    (IsCheck /\ last.resp.status = 200
        /\ ~last.resp.body.eligible) =>
        /\ last.resp.body.reason.t = "str"
        /\ last.resp.body.reason.v # <<>>
====
